---- MODULE Spec2Model ----
(***************************************************************************)
(* Model of the M3 Data Logger QR generator: the command line tool         *)
(* (tools/qr_generator/generate_qr.py) and the REST service                *)
(* (tools/qr_generator/api.py).                                            *)
(*                                                                         *)
(* A Python str is a sequence of characters; a character is a one-element  *)
(* TLA+ string ("a", "7", "-"), the three characters that need a name are  *)
(* DQ (double quote), BS (backslash) and LF (newline), and EACUTE stands   *)
(* for a non-ASCII letter (U+00E9).  len(s) is Len(s).                     *)
(***************************************************************************)
EXTENDS Integers, Sequences, FiniteSets, TLC

DQ == "\""
BS == "\\"
LF == "\n"
EACUTE == "U+00E9"

\* ------------------------------------------------------------------ bounds
\* How many characters beyond a length ceiling the inputs go.
MaxOver == 1

\* ------------------------------------------------------- program constants
QR_MAX_PAYLOAD_BYTES == 220
WIFI_SSID_MAX_LEN == 16
WIFI_PASSWORD_MAX_LEN == 16
MQTT_HOST_MAX_LEN == 40
MQTT_USERNAME_MAX_LEN == 10
MQTT_PASSWORD_MAX_LEN == 10
DEVICE_ID_MAX_LEN == 10

\* ----------------------------------------------------------------- strings
Rep(c, n) == [i \in 1..n |-> c]

RECURSIVE Concat(_)
Concat(ss) == IF ss = <<>> THEN <<>> ELSE Head(ss) \o Concat(Tail(ss))

RECURSIVE Join(_, _)
Join(sep, ss) ==
    IF ss = <<>> THEN <<>>
    ELSE IF Len(ss) = 1 THEN Head(ss)
    ELSE Head(ss) \o sep \o Join(sep, Tail(ss))

\* s[i..j] holds sub starting at position i
MatchAt(s, sub, i) ==
    /\ i + Len(sub) - 1 <= Len(s)
    /\ \A k \in 1..Len(sub) : s[i + k - 1] = sub[k]

Contains(s, sub) == \E i \in 1..(Len(s) - Len(sub) + 1) : MatchAt(s, sub, i)

\* character classes
AsciiDigit == {"0", "1", "2", "3", "4", "5", "6", "7", "8", "9"}
AsciiUpper == {"A", "B", "C", "D", "E", "F", "G", "H", "I", "J", "K", "L", "M",
               "N", "O", "P", "Q", "R", "S", "T", "U", "V", "W", "X", "Y", "Z"}
AsciiLower == {"a", "b", "c", "d", "e", "f", "g", "h", "i", "j", "k", "l", "m",
               "n", "o", "p", "q", "r", "s", "t", "u", "v", "w", "x", "y", "z"}
AsciiAlnum == AsciiDigit \cup AsciiUpper \cup AsciiLower
AsciiPunct == {" ", "!", "-", ".", "_", "*", DQ, BS}

\* 0x20 <= ord(c) <= 0x7E
PrintableAscii(c) == c \in AsciiAlnum \cup AsciiPunct

\* str.isalnum(): every character a letter or a digit (Unicode), at least one
IsAlnumChar(c) == c \in AsciiAlnum \cup {EACUTE}
isalnum(s) == Len(s) > 0 /\ \A i \in 1..Len(s) : IsAlnumChar(s[i])

\* -------------------------------------------------------------- validators
Ok == [valid |-> TRUE, error |-> ""]
Bad(reason) == [valid |-> FALSE, error |-> reason]

validate_test_id(test_id) ==
    IF Len(test_id) # 8 THEN Bad("test_id must be exactly 8 characters")
    ELSE IF ~isalnum(test_id) THEN Bad("test_id must be alphanumeric only")
    ELSE Ok

validate_description(description) ==
    IF Len(description) = 0 THEN Bad("description cannot be empty")
    ELSE IF Len(description) > 64 THEN Bad("description must be 64 characters or less")
    ELSE Ok

validate_labels(labels) ==
    IF Len(labels) = 0 THEN Bad("must provide at least 1 label")
    ELSE IF Len(labels) > 10 THEN Bad("cannot exceed 10 labels")
    ELSE IF \E i \in 1..Len(labels) : Len(labels[i]) = 0 \/ Len(labels[i]) > 32
    THEN LET i == CHOOSE k \in 1..Len(labels) :
                    /\ Len(labels[k]) = 0 \/ Len(labels[k]) > 32
                    /\ \A j \in 1..(k - 1) : Len(labels[j]) \in 1..32
         IN  IF Len(labels[i]) = 0 THEN Bad("label cannot be empty")
             ELSE Bad("label exceeds 32 characters")
    ELSE Ok

validate_wifi_ssid(ssid) ==
    IF ~(1 <= Len(ssid) /\ Len(ssid) <= WIFI_SSID_MAX_LEN)
    THEN Bad("SSID must be 1-16 characters")
    ELSE IF ~(\A i \in 1..Len(ssid) : PrintableAscii(ssid[i]))
    THEN Bad("SSID contains non-printable characters")
    ELSE Ok

validate_wifi_password(password) ==
    LET pwd_len == Len(password)
    IN  IF ~(8 <= pwd_len /\ pwd_len <= 16)
        THEN Bad("Password must be 8-16 characters")
        ELSE IF ~(\A i \in 1..pwd_len : PrintableAscii(password[i]))
        THEN Bad("Password must contain only printable ASCII characters")
        ELSE Ok

\* One DNS label of dns_pattern: [a-zA-Z0-9]([a-zA-Z0-9-]{0,61}[a-zA-Z0-9])?
DnsLabel(l) ==
    /\ Len(l) >= 1
    /\ l[1] \in AsciiAlnum
    /\ Len(l) >= 2 =>
         /\ Len(l) - 2 <= 61
         /\ l[Len(l)] \in AsciiAlnum
         /\ \A i \in 2..(Len(l) - 1) : l[i] \in AsciiAlnum \cup {"-"}

\* One octet of ipv4_pattern: 25[0-5]|2[0-4][0-9]|[01]?[0-9][0-9]?
Ipv4Octet(o) ==
    \/ Len(o) = 3 /\ o[1] = "2" /\ o[2] = "5" /\ o[3] \in {"0", "1", "2", "3", "4", "5"}
    \/ Len(o) = 3 /\ o[1] = "2" /\ o[2] \in {"0", "1", "2", "3", "4"} /\ o[3] \in AsciiDigit
    \/ Len(o) = 3 /\ o[1] \in {"0", "1"} /\ o[2] \in AsciiDigit /\ o[3] \in AsciiDigit
    \/ Len(o) = 2 /\ o[1] \in {"0", "1"} /\ o[2] \in AsciiDigit
    \/ Len(o) \in {1, 2} /\ \A i \in 1..Len(o) : o[i] \in AsciiDigit

\* the pieces of s between the dots, left to right
RECURSIVE SplitDots(_)
SplitDots(s) ==
    IF \A i \in 1..Len(s) : s[i] # "."
    THEN <<s>>
    ELSE LET d == CHOOSE i \in 1..Len(s) : s[i] = "." /\ \A j \in 1..(i - 1) : s[j] # "."
         IN  <<SubSeq(s, 1, d - 1)>> \o SplitDots(SubSeq(s, d + 1, Len(s)))

\* the pattern between ^ and $ matches the whole of s
DnsBody(s) == \A i \in 1..Len(SplitDots(s)) : DnsLabel(SplitDots(s)[i])
Ipv4Body(s) ==
    /\ Len(SplitDots(s)) = 4
    /\ \A i \in 1..4 : Ipv4Octet(SplitDots(s)[i])

\* re.match(r'^...$', s): where the $ of the pattern can stand, as the part of
\* s before it: at the end of s, and just before a newline that ends s
DollarEnds(s) ==
    {s} \cup (IF Len(s) >= 1 /\ s[Len(s)] = LF THEN {SubSeq(s, 1, Len(s) - 1)} ELSE {})

validate_mqtt_host(host) ==
    IF (\E p \in DollarEnds(host) : DnsBody(p)) \/ (\E p \in DollarEnds(host) : Ipv4Body(p))
    THEN Ok
    ELSE Bad("Invalid MQTT host format (must be DNS name or IPv4 address)")

validate_mqtt_port(port) ==
    IF ~(1 <= port /\ port <= 65535) THEN Bad("Port out of valid range (1-65535)")
    ELSE Ok

validate_device_id(device_id) ==
    IF ~(1 <= Len(device_id) /\ Len(device_id) <= DEVICE_ID_MAX_LEN)
    THEN Bad("Device ID must be 1-10 characters")
    ELSE Ok

\* -------------------------------------------------------------- json.dumps
\* ensure_ascii escaping of one character of a str
EscapeChar_ensure_ascii_false(c) ==
    IF c = DQ THEN <<BS, DQ>>
    ELSE IF c = BS THEN <<BS, BS>>
    ELSE IF c = LF THEN <<BS, "n">>
    ELSE <<c>>
EscapeChar(c) ==
    IF c = DQ THEN <<BS, DQ>>
    ELSE IF c = BS THEN <<BS, BS>>
    ELSE IF c = LF THEN <<BS, "n">>
    ELSE IF c = EACUTE THEN <<BS, "u", "0", "0", "e", "9">>
    ELSE <<c>>

DumpsStr(s) == <<DQ>> \o Concat([i \in 1..Len(s) |-> EscapeChar(s[i])]) \o <<DQ>>

DigitChar(d) ==
    CASE d = 0 -> "0" [] d = 1 -> "1" [] d = 2 -> "2" [] d = 3 -> "3" [] d = 4 -> "4"
      [] d = 5 -> "5" [] d = 6 -> "6" [] d = 7 -> "7" [] d = 8 -> "8" [] d = 9 -> "9"

RECURSIVE DumpsNat(_)
DumpsNat(n) == IF n < 10 THEN <<DigitChar(n)>> ELSE DumpsNat(n \div 10) \o <<DigitChar(n % 10)>>

DumpsInt(n) == IF n < 0 THEN <<"-">> \o DumpsNat(0 - n) ELSE DumpsNat(n)

DumpsList(items) == <<"[">> \o Join(<<",">>, items) \o <<"]">>

\* a dict, separators=(',', ':'): members is a sequence of <<key, dumped value>>
DumpsDict_default_separators(members) ==
    <<"{">> \o Join(<<",", " ">>, [i \in 1..Len(members) |->
                                 DumpsStr(members[i][1]) \o <<":", " ">> \o members[i][2]])
            \o <<"}">>
DumpsDict(members) ==
    <<"{">> \o Join(<<",">>, [i \in 1..Len(members) |->
                                 DumpsStr(members[i][1]) \o <<":">> \o members[i][2]])
            \o <<"}">>

\* dictionary keys
K_type == <<"t", "y", "p", "e">>
K_version == <<"v", "e", "r", "s", "i", "o", "n">>
K_wifi == <<"w", "i", "f", "i">>
K_mqtt == <<"m", "q", "t", "t">>
K_ssid == <<"s", "s", "i", "d">>
K_password == <<"p", "a", "s", "s", "w", "o", "r", "d">>
K_host == <<"h", "o", "s", "t">>
K_port == <<"p", "o", "r", "t">>
K_username == <<"u", "s", "e", "r", "n", "a", "m", "e">>
K_device_id == <<"d", "e", "v", "i", "c", "e", "_", "i", "d">>
K_test_id == <<"t", "e", "s", "t", "_", "i", "d">>
K_description == <<"d", "e", "s", "c", "r", "i", "p", "t", "i", "o", "n">>
K_labels == <<"l", "a", "b", "e", "l", "s">>
V_device_config == <<"d", "e", "v", "i", "c", "e", "_", "c", "o", "n", "f", "i", "g">>
V_version == <<"1", ".", "0">>
MASK == Rep("*", 8)

\* json.dumps(config_data, separators=(',', ':')) of the device configuration
\* dict: wifi and mqtt are the nested dicts
DumpsConfig(wifi, mqtt) ==
    DumpsDict(<<
        <<K_type, DumpsStr(V_device_config)>>,
        <<K_version, DumpsStr(V_version)>>,
        <<K_wifi, DumpsDict(<< <<K_ssid, DumpsStr(wifi.ssid)>>,
                               <<K_password, DumpsStr(wifi.password)>> >>)>>,
        <<K_mqtt, DumpsDict(<< <<K_host, DumpsStr(mqtt.host)>>,
                               <<K_port, DumpsInt(mqtt.port)>>,
                               <<K_username, DumpsStr(mqtt.username)>>,
                               <<K_password, DumpsStr(mqtt.password)>>,
                               <<K_device_id, DumpsStr(mqtt.device_id)>> >>)>> >>)

\* json.dumps(metadata, separators=(',', ':')) of the test metadata dict
DumpsMetadata(test_id, description, labels) ==
    DumpsDict(<<
        <<K_test_id, DumpsStr(test_id)>>,
        <<K_description, DumpsStr(description)>>,
        <<K_labels, DumpsList([i \in 1..Len(labels) |-> DumpsStr(labels[i])])>> >>)

\* ------------------------------------------------------------ id generator
\* set(string.ascii_uppercase + string.digits) - set('01IOl')
chars_keeps_O == (AsciiUpper \cup AsciiDigit) \ {"0", "1", "I", "l"}
chars_drops_L == (AsciiUpper \cup AsciiDigit) \ {"0", "1", "I", "O", "L"}
chars == (AsciiUpper \cup AsciiDigit) \ {"0", "1", "I", "O", "l"}

\* picks[i] is what the i-th random.choice(chars) returns
generate_short_uuid(length, picks) == [i \in 1..length |-> picks[i]]

\* ------------------------------------------------------------------ errors
\* An exception or error response: its type, the message's fixed prefix, the
\* validator's reason, and for the size error the numbers it formats.
NoError == [type |-> "none", prefix |-> "", reason |-> "",
            actual |-> 0, max |-> 0, field_usage |-> <<>>]
Error(type, prefix, reason) ==
    [type |-> type, prefix |-> prefix, reason |-> reason,
     actual |-> 0, max |-> 0, field_usage |-> <<>>]
Usage(name, used, limit) == [field |-> name, used |-> used, max |-> limit]

\* What one call has done: the exception it raised (NoError when it
\* returned), each string handed to qr.add_data, what it printed, the image
\* file it left, the value it returned, and the dicts it built.
NoEffect ==
    [raised |-> NoError, qr_data |-> <<>>, stdout |-> <<>>, image_file |-> "none",
     returned |-> <<>>, config_data |-> <<>>, config_display |-> <<>>,
     metadata |-> <<>>]

\* if show: print(...); qr.print_ascii(invert=True)
ShowOut(show, title) == IF show THEN <<title, "qr_ascii">> ELSE <<>>

\* img.save(output_path) as the file system lets it end: "ok" writes the
\* whole image, "no_file" fails before anything is written, "partial" fails
\* after part of the image is written.
SaveOutcomes == {"ok", "no_file", "partial"}
ImageFileAfter(save) ==
    CASE save = "ok" -> "complete" [] save = "partial" -> "partial" [] OTHER -> "none"

\* ------------------------------------------------- generate_qr.py functions
generate_qr_code(test_id, description, labels, output_path, show, save) ==
    IF ~validate_test_id(test_id).valid
    THEN [NoEffect EXCEPT !.raised =
            Error("ValueError", "Invalid test_id", validate_test_id(test_id).error)]
    ELSE IF ~validate_description(description).valid
    THEN [NoEffect EXCEPT !.raised =
            Error("ValueError", "Invalid description", validate_description(description).error)]
    ELSE IF ~validate_labels(labels).valid
    THEN [NoEffect EXCEPT !.raised =
            Error("ValueError", "Invalid labels", validate_labels(labels).error)]
    ELSE
    LET metadata == [test_id |-> test_id, description |-> description, labels |-> labels]
        json_str == DumpsMetadata(metadata.test_id, metadata.description, metadata.labels)
        encoded  == [NoEffect EXCEPT !.metadata = <<metadata>>, !.qr_data = <<json_str>>]
        shown    == [encoded EXCEPT !.stdout = ShowOut(show, "QR Code")]
    IN  IF output_path /\ save # "ok"
        THEN [shown EXCEPT !.image_file = ImageFileAfter(save),
                           !.raised = Error("OSError", "", "cannot save image")]
        ELSE [shown EXCEPT
                !.image_file = IF output_path THEN ImageFileAfter(save) ELSE "none",
                !.stdout = @ \o (IF output_path THEN <<"saved">> ELSE <<>>)
                             \o <<"Metadata JSON", "metadata_pretty">>,
                !.returned = <<json_str>>]

\* the dicts config_data refers to: config_data["wifi"] and config_data["mqtt"]
\* are references into the heap, which config_data.copy() copies as references
Deref(d, heap) ==
    [type |-> d.type, version |-> d.version, wifi |-> heap[d.wifi], mqtt |-> heap[d.mqtt]]

ConfigHeap(wifi_ssid, wifi_password, mqtt_host, mqtt_port, mqtt_username, mqtt_password, device_id) ==
    [wifi |-> [ssid |-> wifi_ssid, password |-> wifi_password],
     mqtt |-> [host |-> mqtt_host, port |-> mqtt_port, username |-> mqtt_username,
               password |-> mqtt_password, device_id |-> device_id]]

ConfigDict == [type |-> V_device_config, version |-> V_version,
               wifi |-> "wifi", mqtt |-> "mqtt"]

FieldUsage(wifi_ssid, wifi_password, mqtt_host, mqtt_username, mqtt_password, device_id) ==
    << Usage("WiFi SSID", Len(wifi_ssid), WIFI_SSID_MAX_LEN),
       Usage("WiFi Password", Len(wifi_password), WIFI_PASSWORD_MAX_LEN),
       Usage("MQTT Host", Len(mqtt_host), MQTT_HOST_MAX_LEN),
       Usage("MQTT Username", Len(mqtt_username), MQTT_USERNAME_MAX_LEN),
       Usage("MQTT Password", Len(mqtt_password), MQTT_PASSWORD_MAX_LEN),
       Usage("Device ID", Len(device_id), DEVICE_ID_MAX_LEN) >>

\* the first failing check of generate_config_qr, NoError when all pass
ConfigValidation_password_first(wifi_ssid, wifi_password, mqtt_host, mqtt_port, mqtt_username, mqtt_password, device_id) ==
    IF ~validate_wifi_password(wifi_password).valid
    THEN Error("ValueError", "Invalid WiFi password", validate_wifi_password(wifi_password).error)
    ELSE IF ~validate_wifi_ssid(wifi_ssid).valid
    THEN Error("ValueError", "Invalid WiFi SSID", validate_wifi_ssid(wifi_ssid).error)
    ELSE IF ~validate_mqtt_host(mqtt_host).valid
    THEN Error("ValueError", "Invalid MQTT host", validate_mqtt_host(mqtt_host).error)
    ELSE IF Len(mqtt_host) > MQTT_HOST_MAX_LEN
    THEN Error("ValueError", "MQTT host too long", "")
    ELSE IF ~validate_mqtt_port(mqtt_port).valid
    THEN Error("ValueError", "Invalid MQTT port", validate_mqtt_port(mqtt_port).error)
    ELSE IF Len(mqtt_username) > MQTT_USERNAME_MAX_LEN
    THEN Error("ValueError", "MQTT username too long", "")
    ELSE IF Len(mqtt_password) > MQTT_PASSWORD_MAX_LEN
    THEN Error("ValueError", "MQTT password too long", "")
    ELSE IF ~validate_device_id(device_id).valid
    THEN Error("ValueError", "Invalid device ID", validate_device_id(device_id).error)
    ELSE NoError
ConfigValidation(wifi_ssid, wifi_password, mqtt_host, mqtt_port, mqtt_username, mqtt_password, device_id) ==
    IF ~validate_wifi_ssid(wifi_ssid).valid
    THEN Error("ValueError", "Invalid WiFi SSID", validate_wifi_ssid(wifi_ssid).error)
    ELSE IF ~validate_wifi_password(wifi_password).valid
    THEN Error("ValueError", "Invalid WiFi password", validate_wifi_password(wifi_password).error)
    ELSE IF ~validate_mqtt_host(mqtt_host).valid
    THEN Error("ValueError", "Invalid MQTT host", validate_mqtt_host(mqtt_host).error)
    ELSE IF Len(mqtt_host) > MQTT_HOST_MAX_LEN
    THEN Error("ValueError", "MQTT host too long", "")
    ELSE IF ~validate_mqtt_port(mqtt_port).valid
    THEN Error("ValueError", "Invalid MQTT port", validate_mqtt_port(mqtt_port).error)
    ELSE IF Len(mqtt_username) > MQTT_USERNAME_MAX_LEN
    THEN Error("ValueError", "MQTT username too long", "")
    ELSE IF Len(mqtt_password) > MQTT_PASSWORD_MAX_LEN
    THEN Error("ValueError", "MQTT password too long", "")
    ELSE IF ~validate_device_id(device_id).valid
    THEN Error("ValueError", "Invalid device ID", validate_device_id(device_id).error)
    ELSE NoError

\* if json_size > QR_MAX_PAYLOAD_BYTES
SizeGuard_hardware_limit(json_size) == json_size > 256
SizeGuard(json_size) == json_size > QR_MAX_PAYLOAD_BYTES

\* config_display = config_data.copy(); config_display["wifi"]["password"] =
\* "********"; if config_display["mqtt"]["password"]: ... = "********"
MaskedHeap_wifi_only(heap, config_display) ==
    [heap EXCEPT ![config_display.wifi].password = MASK]
MaskedHeap(heap, config_display) ==
    LET h1 == [heap EXCEPT ![config_display.wifi].password = MASK]
    IN  IF h1[config_display.mqtt].password # <<>>
        THEN [h1 EXCEPT ![config_display.mqtt].password = MASK]
        ELSE h1

generate_config_qr(wifi_ssid, wifi_password, mqtt_host, mqtt_port, mqtt_username, mqtt_password, device_id, output_path, show, save) ==
    LET invalid == ConfigValidation(wifi_ssid, wifi_password, mqtt_host, mqtt_port,
                                    mqtt_username, mqtt_password, device_id)
        heap == ConfigHeap(wifi_ssid, wifi_password, mqtt_host, mqtt_port,
                           mqtt_username, mqtt_password, device_id)
        config_data == ConfigDict
        json_str  == DumpsConfig(heap[config_data.wifi], heap[config_data.mqtt])
        json_size == Len(json_str)
        built   == [NoEffect EXCEPT !.config_data = <<Deref(config_data, heap)>>]
        encoded == [built EXCEPT !.qr_data = <<json_str>>]
        shown   == [encoded EXCEPT !.stdout = ShowOut(show, "Configuration QR Code")]
        config_display == config_data
        masked  == MaskedHeap(heap, config_display)
    IN  IF invalid # NoError
        THEN [NoEffect EXCEPT !.raised = invalid]
        ELSE IF SizeGuard(json_size)
        THEN [built EXCEPT !.raised =
                [type |-> "ValueError", prefix |-> "Config JSON too large", reason |-> "",
                 actual |-> json_size, max |-> QR_MAX_PAYLOAD_BYTES,
                 field_usage |-> FieldUsage(wifi_ssid, wifi_password, mqtt_host,
                                            mqtt_username, mqtt_password, device_id)]]
        ELSE IF output_path /\ save # "ok"
        THEN [shown EXCEPT !.image_file = ImageFileAfter(save),
                           !.raised = Error("OSError", "", "cannot save image")]
        ELSE [shown EXCEPT
                !.image_file = IF output_path THEN ImageFileAfter(save) ELSE "none",
                !.stdout = @ \o (IF output_path THEN <<"saved">> ELSE <<>>)
                             \o <<"Configuration JSON", "config_pretty">>,
                !.config_data = <<Deref(config_data, masked)>>,
                !.config_display = <<Deref(config_display, masked)>>,
                !.returned = <<json_str>>]

\* ------------------------------------------------------------------- state
VARIABLES
    surface,        \* "none", "cli" (generate_qr.py main) or "api" (api.py)
    handler,        \* the function that served the last call
    request,        \* the arguments or request body of the last call
    raised,         \* the exception or error response it ended with
    status,         \* the process exit status (cli) or the HTTP status (api)
    qr_data,        \* the strings handed to qr.add_data
    stdout,         \* what was printed to the terminal, in order
    image_file,     \* the file at output_path: "none", "complete", "partial"
    returned,       \* the json_str returned, or the response body's payload
    config_data,    \* the config_data dict as the call left it
    config_display, \* the config_display dict that was printed
    metadata        \* the metadata dict built

vars == <<surface, handler, request, raised, status, qr_data, stdout, image_file,
          returned, config_data, config_display, metadata>>

Apply(effect) ==
    /\ raised' = effect.raised
    /\ qr_data' = effect.qr_data
    /\ stdout' = effect.stdout
    /\ image_file' = effect.image_file
    /\ returned' = effect.returned
    /\ config_data' = effect.config_data
    /\ config_display' = effect.config_display
    /\ metadata' = effect.metadata

\* a Python str is false when empty, and None is false
Truthy(given, value) == given /\ value # <<>>

\* except ValueError / except Exception in main: both print to stderr and
\* sys.exit(1); parser.error exits with status 2
ExitStatus(err) ==
    CASE err.type = "none" -> 0
      [] err.type = "SystemExit" -> 2
      [] OTHER -> 1

ParserError(what) == [NoEffect EXCEPT !.raised = Error("SystemExit", "parser.error", what)]

\* main(), --mode metadata
main_metadata(args, picks, save) ==
    IF ~Truthy(TRUE, args.description)
    THEN ParserError("Metadata mode requires --description")
    ELSE IF ~Truthy(TRUE, args.labels)
    THEN ParserError("Metadata mode requires --labels")
    ELSE IF Truthy(args.test_id_given, args.test_id)
    THEN generate_qr_code(args.test_id, args.description, args.labels,
                          args.output, ~args.no_show, save)
    ELSE LET e == generate_qr_code(generate_short_uuid(8, picks), args.description,
                                   args.labels, args.output, ~args.no_show, save)
         IN  [e EXCEPT !.stdout = <<"Generated test_id">> \o @]

\* main(), --mode config
main_config(args, save) ==
    IF \E v \in {args.wifi_ssid, args.wifi_password, args.mqtt_host, args.device_id} :
            ~Truthy(TRUE, v)
    THEN ParserError("Config mode requires")
    ELSE generate_config_qr(args.wifi_ssid, args.wifi_password, args.mqtt_host,
                            args.mqtt_port, args.mqtt_username, args.mqtt_password,
                            args.device_id, args.output, ~args.no_show, save)

\* ------------------------------------------------------------------ api.py
\* The request models: a body that fails a Field constraint or a
\* field_validator never reaches the endpoint function; the framework answers
\* it with its request validation error.
QRGenerateRequest(body) ==
    /\ 1 <= Len(body.description) /\ Len(body.description) <= 64
    /\ 1 <= Len(body.labels) /\ Len(body.labels) <= 10
    /\ validate_labels(body.labels).valid

ConfigQRRequest(body) ==
    /\ 1 <= Len(body.wifi_ssid) /\ Len(body.wifi_ssid) <= 32
    /\ validate_wifi_ssid(body.wifi_ssid).valid
    /\ 8 <= Len(body.wifi_password) /\ Len(body.wifi_password) <= 64
    /\ validate_wifi_password(body.wifi_password).valid
    /\ validate_mqtt_host(body.mqtt_host).valid
    /\ 1 <= body.mqtt_port /\ body.mqtt_port <= 65535

RequestValidationError ==
    [NoEffect EXCEPT !.raised = Error("RequestValidationError", "", "body failed validation")]

HTTPException(prefix, reason) == Error("HTTPException", prefix, reason)

\* the status of the response: the endpoint's own HTTPException(status_code=400),
\* the framework's answer to a request validation error, or the image
HttpStatus(err) ==
    CASE err.type = "none" -> 200
      [] err.type = "HTTPException" -> 400
      [] err.type = "RequestValidationError" -> 422
      [] OTHER -> 500

\* POST /generate
api_generate_qr(body, picks) ==
    IF ~QRGenerateRequest(body) THEN RequestValidationError
    ELSE IF Truthy(body.test_id_given, body.test_id) /\ ~validate_test_id(body.test_id).valid
    THEN [NoEffect EXCEPT !.raised =
            HTTPException("Invalid test_id", validate_test_id(body.test_id).error)]
    ELSE IF ~validate_description(body.description).valid
    THEN [NoEffect EXCEPT !.raised =
            HTTPException("Invalid description", validate_description(body.description).error)]
    ELSE
    LET test_id == IF Truthy(body.test_id_given, body.test_id) THEN body.test_id
                   ELSE generate_short_uuid(8, picks)
        metadata_ == [test_id |-> test_id, description |-> body.description,
                      labels |-> body.labels]
        json_str == DumpsMetadata(metadata_.test_id, metadata_.description, metadata_.labels)
    IN  [NoEffect EXCEPT !.metadata = <<metadata_>>, !.qr_data = <<json_str>>,
                         !.returned = <<json_str>>]

\* POST /generate/config
api_generate_config_qr(body) ==
    IF ~ConfigQRRequest(body) THEN RequestValidationError
    ELSE
    LET heap == ConfigHeap(body.wifi_ssid, body.wifi_password, body.mqtt_host,
                           body.mqtt_port, body.mqtt_username, body.mqtt_password,
                           body.device_id)
        json_str == DumpsConfig(heap[ConfigDict.wifi], heap[ConfigDict.mqtt])
        built == [NoEffect EXCEPT !.config_data = <<Deref(ConfigDict, heap)>>]
    IN  IF Len(json_str) > 220
        THEN [built EXCEPT !.raised =
                [type |-> "HTTPException", prefix |-> "Config JSON too large",
                 reason |-> "", actual |-> Len(json_str), max |-> 220,
                 field_usage |-> <<>>]]
        ELSE [built EXCEPT !.qr_data = <<json_str>>, !.returned = <<json_str>>]

\* ------------------------------------------------------------------ inputs
Over(limit) == (limit + 1)..(limit + MaxOver)

SsidInputs ==
    {Rep("a", n) : n \in {0, WIFI_SSID_MAX_LEN} \cup Over(WIFI_SSID_MAX_LEN)}
        \cup {Rep(DQ, WIFI_SSID_MAX_LEN), <<LF>>}
WifiPasswordInputs ==
    {Rep("a", n) : n \in {7, WIFI_PASSWORD_MAX_LEN} \cup Over(WIFI_PASSWORD_MAX_LEN)}
        \cup {MASK}
HostInputs ==
    {Rep("a", n) : n \in {MQTT_HOST_MAX_LEN} \cup Over(MQTT_HOST_MAX_LEN)}
        \cup {<<"a", LF>>, <<"-">>, <<"a", ".", "b">>}
PortInputs == {0, 1, 65535}
UsernameInputs ==
    {Rep("a", n) : n \in {0, MQTT_USERNAME_MAX_LEN} \cup Over(MQTT_USERNAME_MAX_LEN)}
        \cup {Rep(EACUTE, MQTT_USERNAME_MAX_LEN), <<EACUTE, DQ, BS>>}
MqttPasswordInputs ==
    {Rep("a", n) : n \in {0, MQTT_PASSWORD_MAX_LEN} \cup Over(MQTT_PASSWORD_MAX_LEN)}
DeviceIdInputs ==
    {Rep("a", n) : n \in {0, DEVICE_ID_MAX_LEN} \cup Over(DEVICE_ID_MAX_LEN)}

ConfigBodies ==
    [wifi_ssid : SsidInputs, wifi_password : WifiPasswordInputs, mqtt_host : HostInputs,
     mqtt_port : PortInputs, mqtt_username : UsernameInputs,
     mqtt_password : MqttPasswordInputs, device_id : DeviceIdInputs]

TestIdInputs ==
    {Rep("A", n) : n \in {0, 7, 8} \cup Over(8)} \cup {Rep("A", 7) \o <<"!">>}
DescriptionInputs == {Rep("a", n) : n \in {0, 1, 64} \cup Over(64)}
LabelsInputs ==
    {Rep(<<"a">>, n) : n \in {0, 1, 10} \cup Over(10)}
        \cup {Rep(Rep("a", 32), 10), <<Rep("a", 32 + MaxOver)>>, << <<>> >>}

MetadataBodies ==
    {[description |-> d, labels |-> l, test_id_given |-> g, test_id |-> t] :
        d \in DescriptionInputs, l \in LabelsInputs,
        <<g, t>> \in {<<FALSE, <<>> >>} \cup ({TRUE} \X TestIdInputs)}

\* the random.choice results a call may see
Picks == {Rep(c, 8) : c \in {"A", "9"}}

WithFlags(bodies) ==
    {[body |-> b, output |-> o, no_show |-> n] :
        b \in bodies, o \in BOOLEAN, n \in BOOLEAN}

\* the parsed command line of main()
MetadataArgs(a) ==
    [description |-> a.body.description, labels |-> a.body.labels,
     test_id_given |-> a.body.test_id_given, test_id |-> a.body.test_id,
     output |-> a.output, no_show |-> a.no_show]
ConfigArgs(a) ==
    [wifi_ssid |-> a.body.wifi_ssid, wifi_password |-> a.body.wifi_password,
     mqtt_host |-> a.body.mqtt_host, mqtt_port |-> a.body.mqtt_port,
     mqtt_username |-> a.body.mqtt_username, mqtt_password |-> a.body.mqtt_password,
     device_id |-> a.body.device_id, output |-> a.output, no_show |-> a.no_show]

\* ----------------------------------------------------------------- actions
Init ==
    /\ surface = "none"
    /\ handler = "none"
    /\ request = <<>>
    /\ raised = NoError
    /\ status = 0
    /\ qr_data = <<>>
    /\ stdout = <<>>
    /\ image_file = "none"
    /\ returned = <<>>
    /\ config_data = <<>>
    /\ config_display = <<>>
    /\ metadata = <<>>

CliMetadata ==
    /\ surface = "none"
    /\ \E a \in WithFlags(MetadataBodies), picks \in Picks, save \in SaveOutcomes :
        LET effect == main_metadata(MetadataArgs(a), picks, save)
        IN  /\ surface' = "cli"
            /\ handler' = "generate_qr_code"
            /\ request' = MetadataArgs(a)
            /\ status' = ExitStatus(effect.raised)
            /\ Apply(effect)

CliConfig ==
    /\ surface = "none"
    /\ \E a \in WithFlags(ConfigBodies), save \in SaveOutcomes :
        LET effect == main_config(ConfigArgs(a), save)
        IN  /\ surface' = "cli"
            /\ handler' = "generate_config_qr"
            /\ request' = ConfigArgs(a)
            /\ status' = ExitStatus(effect.raised)
            /\ Apply(effect)

ApiGenerate ==
    /\ surface = "none"
    /\ \E body \in MetadataBodies, picks \in Picks :
        LET effect == api_generate_qr(body, picks)
        IN  /\ surface' = "api"
            /\ handler' = "generate_qr"
            /\ request' = body
            /\ status' = HttpStatus(effect.raised)
            /\ Apply(effect)

ApiGenerateConfig ==
    /\ surface = "none"
    /\ \E body \in ConfigBodies :
        LET effect == api_generate_config_qr(body)
        IN  /\ surface' = "api"
            /\ handler' = "generate_config_qr"
            /\ request' = body
            /\ status' = HttpStatus(effect.raised)
            /\ Apply(effect)

\* Nothing outlives a call: the next process, or the next request, starts from
\* the state after construction.
NextCall ==
    /\ surface # "none"
    /\ surface' = "none"
    /\ handler' = "none"
    /\ request' = <<>>
    /\ status' = 0
    /\ Apply(NoEffect)

Next == CliMetadata \/ CliConfig \/ ApiGenerate \/ ApiGenerateConfig \/ NextCall

Spec == Init /\ [][Next]_vars

\* ------------------------------------------------- validate_mqtt_host alone
\* the longest host string built from every combination of HostAlphabet
MaxHostLen == 3
HostAlphabet == {"a", "5", "-", ".", LF, "!"}

RECURSIVE StringsUpTo(_, _)
StringsUpTo(alphabet, n) ==
    IF n = 0 THEN {<<>>}
    ELSE LET shorter == StringsUpTo(alphabet, n - 1)
         IN  shorter \cup {Append(t, c) : t \in shorter, c \in alphabet}

Ipv4(a, b, c, d) == Join(<<".">>, <<a, b, c, d>>)

HostStrings ==
    StringsUpTo(HostAlphabet, MaxHostLen)
        \cup {Rep("a", n) \o tail : n \in {62, 63, 64}, tail \in {<<>>, <<LF>>, <<".", "b">>}}
        \cup {<<"a">> \o Rep("-", 61 + k) \o <<"a">> : k \in 0..MaxOver}
        \cup {Ipv4(<<"1", "9", "2">>, <<"1", "6", "8">>, <<"1">>, <<"1", "0", "0">>),
              Ipv4(<<"2", "5", "5">>, <<"2", "5", "5">>, <<"2", "5", "5">>, <<"2", "5", "5">>),
              Ipv4(<<"2", "5", "6">>, <<"1">>, <<"1">>, <<"1">>),
              Ipv4(<<"1">>, <<"2">>, <<"3">>, <<"4">>) \o <<LF>>,
              Ipv4(<<"0", "0", "1">>, <<"0">>, <<"0", "9">>, <<"1", "9", "9">>),
              <<"m", "q", "t", "t", ".", "e", "x", "a", "m", "p", "l", "e", ".", "c", "o", "m">>,
              <<"m", "q", "t", "t", ".", "e", "x", "a", "m", "p", "l", "e", ".", "c", "o", "m", LF>>,
              <<"n", "o", "t", " ", "a", " ", "h", "o", "s", "t", "!", "!">>}

HostInit ==
    /\ surface = "none"
    /\ handler = "validate_mqtt_host"
    /\ request \in {[host |-> h] : h \in HostStrings}
    /\ raised = NoError
    /\ status = 0
    /\ qr_data = <<>>
    /\ stdout = <<>>
    /\ image_file = "none"
    /\ returned = <<>>
    /\ config_data = <<>>
    /\ config_display = <<>>
    /\ metadata = <<>>

ValidateHost ==
    /\ surface = "none"
    /\ handler = "validate_mqtt_host"
    /\ surface' = "lib"
    /\ returned' = <<validate_mqtt_host(request.host)>>
    /\ UNCHANGED <<handler, request, raised, status, qr_data, stdout, image_file,
                   config_data, config_display, metadata>>

HostNext == ValidateHost

HostSpec == HostInit /\ [][HostNext]_vars

\* ------------------------------------------------ generate_short_uuid alone
\* the longest id for which every sequence of random.choice results is tried
MaxUuidLen == 2

\* a requested length with the random.choice results the call sees: every
\* sequence for the short lengths, and for the default length 8 each symbol
\* repeated and two mixed sequences
UuidInputs ==
    UNION {{[length |-> n, picks |-> p] : p \in [1..n -> chars]} : n \in 0..MaxUuidLen}
        \cup {[length |-> 8, picks |-> Rep(c, 8)] : c \in chars}
        \cup {[length |-> 8, picks |-> <<"A", "3", "F", "9", "K", "2", "M", "7">>],
              [length |-> 8, picks |-> <<"Z", "Z", "9", "8", "L", "P", "2", "2">>]}

UuidInit ==
    /\ surface = "none"
    /\ handler = "generate_short_uuid"
    /\ request \in UuidInputs
    /\ raised = NoError
    /\ status = 0
    /\ qr_data = <<>>
    /\ stdout = <<>>
    /\ image_file = "none"
    /\ returned = <<>>
    /\ config_data = <<>>
    /\ config_display = <<>>
    /\ metadata = <<>>

GenerateUuid ==
    /\ surface = "none"
    /\ handler = "generate_short_uuid"
    /\ surface' = "lib"
    /\ returned' = <<generate_short_uuid(request.length, request.picks)>>
    /\ UNCHANGED <<handler, request, raised, status, qr_data, stdout, image_file,
                   config_data, config_display, metadata>>

UuidNext == GenerateUuid

UuidSpec == UuidInit /\ [][UuidNext]_vars

\* ================================================================== claims
Printed(what) == \E i \in 1..Len(stdout) : stdout[i] = what

ConfigCall == handler = "generate_config_qr"
MetadataCall == handler \in {"generate_qr_code", "generate_qr"}

\* the compact serialized JSON of the device-config input of the last call
RequestConfigJson ==
    DumpsConfig([ssid |-> request.wifi_ssid, password |-> request.wifi_password],
                [host |-> request.mqtt_host, port |-> request.mqtt_port,
                 username |-> request.mqtt_username, password |-> request.mqtt_password,
                 device_id |-> request.device_id])

\* every field of the last call's device-config input passes its validator or
\* length check
FieldValid ==
    ConfigValidation(request.wifi_ssid, request.wifi_password, request.mqtt_host,
                     request.mqtt_port, request.mqtt_username, request.mqtt_password,
                     request.device_id) = NoError

SizeError == raised.prefix = "Config JSON too large"

C2_CeilingsGuaranteeBudget ==
    (ConfigCall /\ FieldValid) =>
        /\ Len(RequestConfigJson) <= QR_MAX_PAYLOAD_BYTES
        /\ ~SizeError

AllFieldsAtMaximum ==
    /\ request.wifi_ssid = Rep("a", WIFI_SSID_MAX_LEN)
    /\ request.wifi_password = Rep("a", WIFI_PASSWORD_MAX_LEN)
    /\ request.mqtt_host = Rep("a", MQTT_HOST_MAX_LEN)
    /\ request.mqtt_port = 65535
    /\ request.mqtt_username = Rep("a", MQTT_USERNAME_MAX_LEN)
    /\ request.mqtt_password = Rep("a", MQTT_PASSWORD_MAX_LEN)
    /\ request.device_id = Rep("a", DEVICE_ID_MAX_LEN)

\* C2 as amended: the ceilings do not guarantee the budget.  On field-valid
\* input the size guard fires exactly when the compact JSON is longer than
\* 220, which happens with all fields at their maximum length and port 65535
\* (250 characters), and whatever reaches the encoder is at most 220 long.
C2_GuardEnforcesBudget ==
    (ConfigCall /\ FieldValid) =>
        /\ SizeError <=> Len(RequestConfigJson) > QR_MAX_PAYLOAD_BYTES
        /\ qr_data # <<>> => Len(qr_data[1]) <= QR_MAX_PAYLOAD_BYTES
        /\ AllFieldsAtMaximum => SizeError /\ raised.actual = 250

C2_Witness ==
    /\ ConfigCall /\ surface = "cli"
    /\ FieldValid /\ AllFieldsAtMaximum
    /\ raised.type = "ValueError" /\ SizeError /\ raised.actual = 250
    /\ qr_data = <<>>

\* C3: the service lets a device-config record reach the encoder if and only
\* if the command line tool's generate_config_qr does.
C3_SameValidators ==
    (ConfigCall /\ surface = "api") =>
        (qr_data # <<>>
            <=> generate_config_qr(request.wifi_ssid, request.wifi_password,
                                   request.mqtt_host, request.mqtt_port,
                                   request.mqtt_username, request.mqtt_password,
                                   request.device_id, FALSE, FALSE, "ok").qr_data # <<>>)

\* C4: on both surfaces a supplied test_id (any string, the empty string
\* included) is validated, and either it is the test_id of the payload or the
\* request is rejected; a generated id is used only when none was supplied.
C4_SuppliedTestIdUsedOrRejected ==
    (MetadataCall /\ request.test_id_given) =>
        \/ raised.type # "none"
        \/ /\ validate_test_id(request.test_id).valid
           /\ metadata # <<>>
           /\ metadata[1].test_id = request.test_id

\* the text of a JSON object member "key":"value"
Member(key, value) == DumpsStr(key) \o <<":">> \o DumpsStr(value)

\* C5: for every accepted call of the tool's generate_config_qr, the string
\* handed to the encoder is the string returned and holds the real WiFi and
\* MQTT passwords, while the printed copy shows the WiFi password, and a
\* non-empty MQTT password, as ********.
C5_MaskedOnlyInPrintedCopy ==
    (ConfigCall /\ surface = "cli" /\ raised.type = "none") =>
        /\ Len(qr_data) = 1
        /\ returned = qr_data
        /\ Contains(qr_data[1],
                    <<"{">> \o Member(K_ssid, request.wifi_ssid) \o <<",">>
                            \o Member(K_password, request.wifi_password) \o <<"}">>)
        /\ Contains(qr_data[1],
                    <<",">> \o Member(K_password, request.mqtt_password) \o <<",">>
                            \o Member(K_device_id, request.device_id) \o <<"}">>)
        /\ Printed("config_pretty")
        /\ Len(config_display) = 1
        /\ config_display[1].wifi.password = MASK
        /\ config_display[1].mqtt.password =
              IF request.mqtt_password = <<>> THEN <<>> ELSE MASK

C5_Witness ==
    /\ ConfigCall /\ surface = "cli" /\ raised.type = "none"
    /\ request.mqtt_password # <<>>
    /\ request.wifi_password # MASK
    /\ returned = qr_data
    /\ Contains(qr_data[1], Member(K_password, request.wifi_password))
    /\ ~Contains(qr_data[1], Member(K_password, MASK))
    /\ config_display[1].mqtt.password = MASK

\* C6: on both surfaces a metadata record whose compact JSON is longer than
\* 220 is rejected before the encoder is invoked.
C6_MetadataSizeChecked ==
    (MetadataCall /\ metadata # <<>>
        /\ Len(DumpsMetadata(metadata[1].test_id, metadata[1].description,
                             metadata[1].labels)) > QR_MAX_PAYLOAD_BYTES) =>
        /\ qr_data = <<>>
        /\ raised.type # "none"

\* a field of the last request to the service fails its validation
ApiFieldFails ==
    \/ /\ handler = "generate_qr"
       /\ \/ Truthy(request.test_id_given, request.test_id)
                /\ ~validate_test_id(request.test_id).valid
          \/ ~validate_description(request.description).valid
          \/ ~validate_labels(request.labels).valid
    \/ /\ handler = "generate_config_qr"
       /\ \/ ~validate_wifi_ssid(request.wifi_ssid).valid
          \/ ~validate_wifi_password(request.wifi_password).valid
          \/ ~validate_mqtt_host(request.mqtt_host).valid
          \/ ~validate_mqtt_port(request.mqtt_port).valid

\* C7: every request to the service that is rejected because a field fails
\* validation is answered with status 400.
C7_ValidationFailureIs400 ==
    (surface = "api" /\ ApiFieldFails) => status = 400

\* C8: a size-budget rejection carries, on either surface, the actual and the
\* maximum byte count and the per-field breakdown of the six string fields.
C8_SizeErrorHasBreakdown ==
    (ConfigCall /\ SizeError) =>
        /\ raised.actual = Len(RequestConfigJson)
        /\ raised.max = QR_MAX_PAYLOAD_BYTES
        /\ raised.field_usage =
              << Usage("WiFi SSID", Len(request.wifi_ssid), WIFI_SSID_MAX_LEN),
                 Usage("WiFi Password", Len(request.wifi_password), WIFI_PASSWORD_MAX_LEN),
                 Usage("MQTT Host", Len(request.mqtt_host), MQTT_HOST_MAX_LEN),
                 Usage("MQTT Username", Len(request.mqtt_username), MQTT_USERNAME_MAX_LEN),
                 Usage("MQTT Password", Len(request.mqtt_password), MQTT_PASSWORD_MAX_LEN),
                 Usage("Device ID", Len(request.device_id), DEVICE_ID_MAX_LEN) >>

\* a DNS hostname: dot-separated labels, each 1..63 letters, digits or
\* hyphens, none starting or ending with a hyphen
IsDnsHostname(s) ==
    LET labels == SplitDots(s)
    IN  /\ \A i \in 1..Len(s) : s[i] \in AsciiAlnum \cup {"-", "."}
        /\ \A i \in 1..Len(labels) :
              /\ Len(labels[i]) \in 1..63
              /\ labels[i][1] # "-"
              /\ labels[i][Len(labels[i])] # "-"

DigitValue(c) == CHOOSE d \in 0..9 : DigitChar(d) = c

RECURSIVE Decimal(_)
Decimal(o) == IF o = <<>> THEN 0
              ELSE 10 * Decimal(SubSeq(o, 1, Len(o) - 1)) + DigitValue(o[Len(o)])

\* a dotted quad: four octets, each one to three digits with a value in 0..255
IsIpv4Address(s) ==
    LET octets == SplitDots(s)
    IN  /\ Len(octets) = 4
        /\ \A i \in 1..4 :
              /\ Len(octets[i]) \in 1..3
              /\ \A k \in 1..Len(octets[i]) : octets[i][k] \in AsciiDigit
              /\ Decimal(octets[i]) \in 0..255

\* C9: validate_mqtt_host accepts a string if and only if the whole string is
\* a DNS hostname or a dotted-quad IPv4 address; a valid host followed by a
\* newline is rejected.
C9_HostAcceptedIffWholeStringIsHost ==
    (handler = "validate_mqtt_host" /\ surface = "lib") =>
        (returned[1].valid <=> (IsDnsHostname(request.host) \/ IsIpv4Address(request.host)))

\* C10: a command line generation call that ends in an error has printed no
\* terminal QR rendering and written no image file.
C10_NoPartialOutput ==
    (surface = "cli" /\ raised.type # "none") =>
        /\ ~Printed("qr_ascii")
        /\ image_file = "none"

UuidReturned == handler = "generate_short_uuid" /\ surface = "lib"

\* C11: generate_short_uuid(n), n >= 0, returns exactly n characters, each an
\* uppercase ASCII letter or a digit and none of 0, O, 1, I, l (repeats
\* allowed), and every id of the default length 8 passes validate_test_id.
C11_ShortUuidUnambiguous ==
    UuidReturned =>
        /\ Len(returned[1]) = request.length
        /\ \A i \in 1..Len(returned[1]) :
              /\ returned[1][i] \in AsciiUpper \cup AsciiDigit
              /\ returned[1][i] \notin {"0", "O", "1", "I", "l"}
        /\ request.length = 8 => validate_test_id(returned[1]).valid

C11_Witness ==
    /\ UuidReturned
    /\ request.length = 8
    /\ returned[1] = <<"Z", "Z", "9", "8", "L", "P", "2", "2">>
    /\ validate_test_id(returned[1]).valid

\* C12 as claimed: the alphabet generate_short_uuid draws from has exactly 31
\* distinct symbols.
C12_AlphabetHas31Symbols ==
    UuidReturned =>
        /\ \A i \in 1..Len(returned[1]) : returned[1][i] \in chars
        /\ Cardinality(chars) = 31

\* C12 as amended: the alphabet has exactly 32 distinct symbols, the 26
\* uppercase letters and 10 digits without 0, 1, I and O (the lowercase l is
\* none of them, so removing it removes nothing).
C12_AlphabetHas32Symbols ==
    UuidReturned =>
        /\ \A i \in 1..Len(returned[1]) : returned[1][i] \in chars
        /\ Cardinality(chars) = 32
        /\ chars = (AsciiUpper \ {"I", "O"}) \cup (AsciiDigit \ {"0", "1"})

C12_Witness ==
    /\ UuidReturned
    /\ returned[1] = <<"L", "L", "L", "L", "L", "L", "L", "L">>
    /\ Cardinality(chars) = 32

\* the number of bytes of the UTF-8 encoding of a str
Utf8Bytes(c) == IF c = EACUTE THEN 2 ELSE 1
Utf8Len(s) ==
    Cardinality({i \in 1..Len(s) : Utf8Bytes(s[i]) = 1})
        + 2 * Cardinality({i \in 1..Len(s) : Utf8Bytes(s[i]) = 2})

\* the last call got as far as the size guard of its surface
GuardReached ==
    /\ ConfigCall
    /\ surface = "cli" => raised.type # "SystemExit" /\ FieldValid
    /\ surface = "api" => ConfigQRRequest(request)

\* C13: on both surfaces the number the size guard compares with the maximum
\* is the UTF-8 byte length of the serialized payload, whatever the input
\* holds (non-ASCII characters, double quotes, backslashes): the payload is
\* pure ASCII, the guard fires exactly when its byte length exceeds 220, the
\* size it reports is that byte length, and the string handed to the encoder
\* is the one that was measured.
C13_GuardMeasuresUtf8Bytes ==
    GuardReached =>
        /\ Len(RequestConfigJson) = Utf8Len(RequestConfigJson)
        /\ SizeError <=> Utf8Len(RequestConfigJson) > QR_MAX_PAYLOAD_BYTES
        /\ SizeError => raised.actual = Utf8Len(RequestConfigJson)
        /\ \A i \in 1..Len(qr_data) :
              /\ qr_data[i] = RequestConfigJson
              /\ Utf8Len(qr_data[i]) <= QR_MAX_PAYLOAD_BYTES

C13_Witness ==
    /\ GuardReached
    /\ request.mqtt_username = <<EACUTE, DQ, BS>>
    /\ Len(qr_data) = 1
    /\ qr_data[1] = RequestConfigJson
    /\ Contains(qr_data[1], <<BS, "u", "0", "0", "e", "9", BS, DQ, BS, BS>>)
    /\ Utf8Len(qr_data[1]) = Len(qr_data[1])

\* C14 as claimed: building and masking the display copy leaves config_data
\* and its nested wifi and mqtt dicts unchanged, so after an accepted call of
\* the tool's generate_config_qr config_data still holds the real passwords.
C14_ConfigDataKeepsRealPasswords ==
    (ConfigCall /\ surface = "cli" /\ raised.type = "none") =>
        /\ Len(config_data) = 1
        /\ config_data[1].wifi.password = request.wifi_password
        /\ config_data[1].mqtt.password = request.mqtt_password

\* the checks of generate_config_qr in the claimed order, each with whether
\* the last call's input fails it and the message its error starts with
ClaimedChecks ==
    << [fails |-> ~validate_wifi_ssid(request.wifi_ssid).valid,
        prefix |-> "Invalid WiFi SSID"],
       [fails |-> ~validate_wifi_password(request.wifi_password).valid,
        prefix |-> "Invalid WiFi password"],
       [fails |-> ~validate_mqtt_host(request.mqtt_host).valid,
        prefix |-> "Invalid MQTT host"],
       [fails |-> Len(request.mqtt_host) > MQTT_HOST_MAX_LEN,
        prefix |-> "MQTT host too long"],
       [fails |-> ~validate_mqtt_port(request.mqtt_port).valid,
        prefix |-> "Invalid MQTT port"],
       [fails |-> Len(request.mqtt_username) > MQTT_USERNAME_MAX_LEN,
        prefix |-> "MQTT username too long"],
       [fails |-> Len(request.mqtt_password) > MQTT_PASSWORD_MAX_LEN,
        prefix |-> "MQTT password too long"],
       [fails |-> ~validate_device_id(request.device_id).valid,
        prefix |-> "Invalid device ID"] >>

FailingChecks == {i \in 1..Len(ClaimedChecks) : ClaimedChecks[i].fails}
FirstFailingCheck == CHOOSE i \in FailingChecks : \A j \in FailingChecks : i <= j

\* the tool's main() has called generate_config_qr
ConfigQrCalled == ConfigCall /\ surface = "cli" /\ raised.type # "SystemExit"

\* C15: when an input of generate_config_qr fails any check, the error raised
\* is the ValueError of the first failing check in the order SSID, WiFi
\* password, MQTT host format, MQTT host length, port, MQTT username length,
\* MQTT password length, device id, and nothing after the checks has run: no
\* dict is built, no size is measured, nothing is encoded, printed, written
\* or returned.  A WiFi password longer than 16 characters with a valid SSID
\* is rejected with the password-length reason.
C15_FirstFailingCheckReported ==
    (ConfigQrCalled /\ FailingChecks # {}) =>
        /\ raised.type = "ValueError"
        /\ raised.prefix = ClaimedChecks[FirstFailingCheck].prefix
        /\ ~SizeError /\ raised.actual = 0 /\ raised.field_usage = <<>>
        /\ config_data = <<>> /\ config_display = <<>>
        /\ qr_data = <<>> /\ stdout = <<>> /\ image_file = "none" /\ returned = <<>>
        /\ (validate_wifi_ssid(request.wifi_ssid).valid
                /\ Len(request.wifi_password) > WIFI_PASSWORD_MAX_LEN) =>
              /\ raised.prefix = "Invalid WiFi password"
              /\ raised.reason = "Password must be 8-16 characters"

C15_Witness ==
    /\ ConfigQrCalled
    /\ Cardinality(FailingChecks) >= 2
    /\ validate_wifi_ssid(request.wifi_ssid).valid
    /\ Len(request.wifi_password) > WIFI_PASSWORD_MAX_LEN
    /\ ~validate_device_id(request.device_id).valid
    /\ raised.prefix = "Invalid WiFi password"
    /\ qr_data = <<>>

====
